---- MODULE Spec2Model ----
(***************************************************************************)
(* Model of the BCA envelope sorting API: the verdict computation          *)
(* (services.normalize_item), the batch lifecycle handlers of main.py and   *)
(* the MySQL persistence functions of models.py.                            *)
(*                                                                          *)
(* Nullable values are written as sequences of length at most one:          *)
(* None (<<>>) is Python's None / SQL NULL, Some(v) (<<v>>) is a value.     *)
(***************************************************************************)
EXTENDS Integers, Sequences, FiniteSets, TLC

VARIABLES
    records,      \* table records: committed rows, indexed by AUTO_INCREMENT id
    record_item,  \* table record_item: committed rows in id order
    lock,         \* InnoDB row lock on records[id]: 0 = free, else the holding call
    fin,          \* per worker: the finish_batch call it is executing
    hist,         \* per batch: the finish_record transactions that ended (history)
    now,          \* datetime.now(): the clock, advanced by the samples of finish_record
    detail,       \* the get_batch_detail or download_record call in progress
    response,     \* the HTTP response returned by the last step, or None
    norm          \* input and output of a stand-alone normalize_item evaluation

vars == <<records, record_item, lock, fin, hist, now, detail, response, norm>>

-----------------------------------------------------------------------------
(* Bounds                                                                   *)

MaxBatches == 2     \* batches started
MaxItems   == 2     \* length of the item list of one finish call
MaxCalls   == 2     \* finish_batch calls that reach finish_record in one behaviour
MaxCfgLen  == 3     \* length of scanner_used in the stand-alone normalize check

Workers == {1, 2}   \* request workers that may run finish_batch concurrently

-----------------------------------------------------------------------------
(* Values                                                                   *)

None == <<>>
Some(v) == <<v>>

\* Python truthiness of a nullable flag, string and number
\* (None, False, "" and 0 are falsy)
TruthyFlag(x) == x = Some(TRUE)
TruthyStr(x) == x # None /\ x[1] # ""
TruthyInt(x) == x # None /\ x[1] # 0

\* dict.get(key): None when the key is missing
DictGet(d, key) == IF key \in DOMAIN d THEN d[key] ELSE None

\* one scanner field of a raw item: missing/null, a {value, valid} object,
\* or a bare (non-empty) scalar
Absent == [kind |-> "absent", value |-> None, valid |-> None]
Struct(value, valid) == [kind |-> "struct", value |-> value, valid |-> valid]
Bare(value) == [kind |-> "bare", value |-> value, valid |-> None]

TriState == {None, Some(TRUE), Some(FALSE)}

Readings ==
    {Absent, Bare(Some("A"))}
        \cup {Struct(v, b) : v \in {None, Some("A")}, b \in TriState}

RawItem(id, r1, r2, r3) ==
    [item_id |-> id, scanner_1 |-> r1, scanner_2 |-> r2, scanner_3 |-> r3]

-----------------------------------------------------------------------------
(* services.normalize_item                                                  *)

\* the inner function get(scanner_key): a pair <<value, valid>>, or the
\* AttributeError raised by data.get on a value that is not a dict
get(item, scanner_key) ==
    LET data == item[scanner_key]
    IN  IF data.kind = "absent" THEN [raised |-> FALSE, value |-> None, valid |-> None]
        ELSE IF data.kind = "bare" THEN [raised |-> TRUE, value |-> None, valid |-> None]
        ELSE [raised |-> FALSE, value |-> data.value, valid |-> data.valid]

\* scanners.get(scanner, (None, None))
ScannersGet(scanners, scanner) ==
    IF scanner \in DOMAIN scanners THEN scanners[scanner]
    ELSE [raised |-> FALSE, value |-> None, valid |-> None]

\* the loop with "if valid is False" applied to the first scanner only
VerdictLoop_FirstOnly(scanners, scanner_used, i, result, fallback) ==
    IF i > Len(scanner_used) THEN [result |-> result, fallback |-> fallback]
    ELSE LET reading == ScannersGet(scanners, scanner_used[i])
         IN  [result |-> IF reading.valid = Some(FALSE) THEN "FAIL" ELSE result,
              fallback |-> \E j \in i..Len(scanner_used) :
                              ScannersGet(scanners, scanner_used[j]).value = None]

\* the loop with "if not valid" in place of "if valid is False"
RECURSIVE VerdictLoop_NotValid(_, _, _, _, _)
VerdictLoop_NotValid(scanners, scanner_used, i, result, fallback) ==
    IF i > Len(scanner_used) THEN [result |-> result, fallback |-> fallback]
    ELSE LET reading == ScannersGet(scanners, scanner_used[i])
             fb == IF reading.value = None THEN TRUE ELSE fallback
         IN  IF reading.valid # Some(TRUE)
             THEN [result |-> "FAIL", fallback |-> fb]
             ELSE VerdictLoop_NotValid(scanners, scanner_used, i + 1, result, fb)

\* the loop without its break: every scanner of scanner_used is examined
RECURSIVE VerdictLoop_NoBreak(_, _, _, _, _)
VerdictLoop_NoBreak(scanners, scanner_used, i, result, fallback) ==
    IF i > Len(scanner_used) THEN [result |-> result, fallback |-> fallback]
    ELSE LET reading == ScannersGet(scanners, scanner_used[i])
             fb == IF reading.value = None THEN TRUE ELSE fallback
         IN  VerdictLoop_NoBreak(scanners, scanner_used, i + 1,
                                 IF reading.valid = Some(FALSE) THEN "FAIL" ELSE result,
                                 fb)

\* the loop over scanner_used, from position i with the current result/fallback
RECURSIVE VerdictLoop(_, _, _, _, _)
VerdictLoop(scanners, scanner_used, i, result, fallback) ==
    IF i > Len(scanner_used) THEN [result |-> result, fallback |-> fallback]
    ELSE LET reading == ScannersGet(scanners, scanner_used[i])
             fb == IF reading.value = None THEN TRUE ELSE fallback
         IN  IF reading.valid = Some(FALSE)
             THEN [result |-> "FAIL", fallback |-> fb]
             ELSE VerdictLoop(scanners, scanner_used, i + 1, result, fb)

\* normalize_item with item.get("item_id") in place of item["item_id"]
normalize_item_GetItemId(item, record_id, scanner_used) ==
    LET scanners == [s \in 1..3 |->
                        get(item, CASE s = 1 -> "scanner_1"
                                    [] s = 2 -> "scanner_2"
                                    [] s = 3 -> "scanner_3")]
        verdict == VerdictLoop(scanners, scanner_used, 1, "PASS", FALSE)
    IN  IF \E s \in 1..3 : scanners[s].raised
        THEN [raised |-> TRUE, error |-> "AttributeError"]
        ELSE [raised |-> FALSE,
              item |-> [item_id |-> item.item_id,
                        record_id |-> record_id,
                        scanner_1 |-> scanners[1].value,
                        scanner_1_valid |-> scanners[1].valid,
                        scanner_2 |-> scanners[2].value,
                        scanner_2_valid |-> scanners[2].valid,
                        scanner_3 |-> scanners[3].value,
                        scanner_3_valid |-> scanners[3].valid,
                        result |-> verdict.result,
                        fallback |-> verdict.fallback]]

\* item_id = None stands for a raw item without the key "item_id": the
\* subscript item["item_id"] raises KeyError
normalize_item(item, record_id, scanner_used) ==
    LET scanners == [s \in 1..3 |->
                        get(item, CASE s = 1 -> "scanner_1"
                                    [] s = 2 -> "scanner_2"
                                    [] s = 3 -> "scanner_3")]
        verdict == VerdictLoop(scanners, scanner_used, 1, "PASS", FALSE)
    IN  IF \E s \in 1..3 : scanners[s].raised
        THEN [raised |-> TRUE, error |-> "AttributeError"]
        ELSE IF item.item_id = None
        THEN [raised |-> TRUE, error |-> "KeyError"]
        ELSE [raised |-> FALSE,
              item |-> [item_id |-> item.item_id,
                        record_id |-> record_id,
                        scanner_1 |-> scanners[1].value,
                        scanner_1_valid |-> scanners[1].valid,
                        scanner_2 |-> scanners[2].value,
                        scanner_2_valid |-> scanners[2].valid,
                        scanner_3 |-> scanners[3].value,
                        scanner_3_valid |-> scanners[3].valid,
                        result |-> verdict.result,
                        fallback |-> verdict.fallback]]

-----------------------------------------------------------------------------
(* Inputs of the handlers                                                   *)

ItemPass == RawItem(Some(1), Struct(Some("A"), Some(TRUE)),
                    Struct(Some("A"), Some(TRUE)), Absent)
ItemFail == RawItem(Some(2), Struct(None, None),
                    Struct(Some("A"), Some(FALSE)), Absent)
ItemNoId == RawItem(None, Struct(Some("A"), Some(TRUE)), Absent, Absent)

\* the item lists of the finish calls: the first n items of a feed of scans
\* that alternates a passing and a failing item
Feed(n) == [i \in 1..n |-> IF i % 2 = 1 THEN ItemPass ELSE ItemFail]

RECURSIVE SeqsUpTo(_, _)
SeqsUpTo(S, n) ==
    IF n = 0 THEN {<<>>}
    ELSE LET shorter == SeqsUpTo(S, n - 1)
         IN  shorter \cup {Append(q, x) : q \in {r \in shorter : Len(r) = n - 1}, x \in S}

ItemLists == {Feed(n) : n \in 0..MaxItems}

ScannerConfigs == {<<1, 2>>}
BatchCodes == {None}
StatusFilters == {None, Some("Running"), Some("Completed")}

-----------------------------------------------------------------------------
(* models.py: rows and queries                                              *)

\* json.dumps / json.loads of the scanner_used column
json_dumps(x) == [json |-> x]
json_loads(s) == s.json

\* the INSERT with the status of a finished batch
NewRecord_Completed(batch_code, scanner_used, start_time) ==
    [batch_code |-> batch_code,
     scanner_used |-> [json |-> scanner_used],
     start_time |-> Some(start_time),
     status |-> "Completed",
     end_time |-> None,
     total_items |-> Some(0)]

\* the row written by the INSERT of create_record; end_time has no value
NewRecord(batch_code, scanner_used, start_time) ==
    [batch_code |-> batch_code,
     scanner_used |-> json_dumps(scanner_used),
     start_time |-> Some(start_time),
     status |-> "Running",
     end_time |-> None,
     total_items |-> Some(0)]

\* the INSERT with the normalized item's "result" as validation_result
ItemRow_StoresResult(record_id, item) ==
    [record_id |-> record_id,
     item_id |-> DictGet(item, "item_id"),
     scanner_1_value |-> DictGet(item, "scanner_1_value"),
     scanner_1_valid |-> IF TruthyFlag(DictGet(item, "scanner_1_valid")) THEN 1 ELSE 0,
     scanner_2_value |-> DictGet(item, "scanner_2_value"),
     scanner_2_valid |-> IF TruthyFlag(DictGet(item, "scanner_2_valid")) THEN 1 ELSE 0,
     scanner_3_value |-> DictGet(item, "scanner_3_value"),
     scanner_3_valid |-> IF TruthyFlag(DictGet(item, "scanner_3_valid")) THEN 1 ELSE 0,
     validation_result |-> Some(item.result)]

\* the row written by one INSERT INTO record_item of finish_record
ItemRow(record_id, item) ==
    [record_id |-> record_id,
     item_id |-> DictGet(item, "item_id"),
     scanner_1_value |-> DictGet(item, "scanner_1_value"),
     scanner_1_valid |-> IF TruthyFlag(DictGet(item, "scanner_1_valid")) THEN 1 ELSE 0,
     scanner_2_value |-> DictGet(item, "scanner_2_value"),
     scanner_2_valid |-> IF TruthyFlag(DictGet(item, "scanner_2_valid")) THEN 1 ELSE 0,
     scanner_3_value |-> DictGet(item, "scanner_3_value"),
     scanner_3_valid |-> IF TruthyFlag(DictGet(item, "scanner_3_valid")) THEN 1 ELSE 0,
     validation_result |-> DictGet(item, "validation_result")]

\* the unique index on records.batch_code (the table definition is outside
\* the source files; a unique index admits any number of NULLs): whether an
\* INSERT of this batch_code is accepted
batch_code_unique(batch_code) ==
    \/ batch_code = None
    \/ \A id \in DOMAIN records : records[id].batch_code # batch_code

\* the rows of record_item owned by a batch, in id order
ItemsOf(record_id) == SelectSeq(record_item, LAMBDA r : r.record_id = record_id)

\* get_record: the committed row, or None when there is none
get_record(record_id) ==
    IF record_id \in DOMAIN records THEN Some(records[record_id]) ELSE None

\* one scanner entry of an item returned by get_record_items
ScannerEntry(value, valid) ==
    IF TruthyStr(value) THEN Some([value |-> value[1], valid |-> valid # 0]) ELSE None

get_record_items(record_id) ==
    LET rows == ItemsOf(record_id)
    IN  [i \in DOMAIN rows |->
            [item_id |-> rows[i].item_id,
             validation_result |-> rows[i].validation_result,
             scanner_1 |-> ScannerEntry(rows[i].scanner_1_value, rows[i].scanner_1_valid),
             scanner_2 |-> ScannerEntry(rows[i].scanner_2_value, rows[i].scanner_2_valid),
             scanner_3 |-> ScannerEntry(rows[i].scanner_3_value, rows[i].scanner_3_valid)]]

CountWhere(seq, Test(_)) == Cardinality({i \in DOMAIN seq : Test(seq[i])})

\* one record of get_all_records: the LEFT JOIN aggregation of a batch
Summary(id) ==
    LET rows == ItemsOf(id)
        item_count == Len(rows)
        pass_count == CountWhere(rows, LAMBDA r : r.validation_result = Some("PASS"))
        fail_count == CountWhere(rows, LAMBDA r : r.validation_result = Some("FAIL"))
        stored == records[id].total_items
    IN  [id |-> id,
         batch_code |-> records[id].batch_code,
         status |-> records[id].status,
         end_time |-> records[id].end_time,
         scanner_used |-> records[id].scanner_used,
         total_items |-> IF TruthyInt(stored) THEN stored[1] ELSE item_count,
         pass_count |-> pass_count,
         fail_count |-> fail_count]

\* ids in descending order, restricted to the status filter
RECURSIVE IdsDesc(_, _)
IdsDesc(n, status_filter) ==
    IF n = 0 THEN <<>>
    ELSE IF TruthyStr(status_filter) /\ records[n].status # status_filter[1]
    THEN IdsDesc(n - 1, status_filter)
    ELSE <<n>> \o IdsDesc(n - 1, status_filter)

get_all_records(status_filter) ==
    LET ids == IdsDesc(Len(records), status_filter)
    IN  [i \in DOMAIN ids |-> Summary(ids[i])]

-----------------------------------------------------------------------------
(* State                                                                    *)

\* a worker that is not inside finish_record; prior and item_ids are history:
\* the number of completed finish calls of the batch when this call read its
\* status, and the item_ids of the raw list of the request
IdleCall ==
    [pc |-> "idle", record_id |-> 0, normalized |-> <<>>, end_time |-> 0,
     total_items |-> 0, k |-> 0, n |-> 0, prior |-> 0, item_ids |-> <<>>]

IdleDetail == [pc |-> "idle", record_id |-> 0, record |-> None]

NoNorm == [item |-> ItemPass, scanner_used |-> <<>>, out |-> None]

Init ==
    /\ records = <<>>
    /\ record_item = <<>>
    /\ lock = <<>>
    /\ fin = [p \in Workers |-> IdleCall]
    /\ hist = <<>>
    /\ now = 1
    /\ detail = IdleDetail
    /\ response = None
    /\ norm = NoNorm

-----------------------------------------------------------------------------
(* main.start_batch with models.create_record                               *)

\* create_record with the Error of a refused INSERT swallowed: the handler
\* answers 200 although no row was written
start_batch_SwallowsError(scanner_used, batch_code) ==
    /\ Len(records) < MaxBatches
    /\ IF batch_code_unique(batch_code)
       THEN /\ records' = Append(records, NewRecord(batch_code, scanner_used, 0))
            /\ lock' = Append(lock, 0)
            /\ hist' = Append(hist, <<>>)
       ELSE UNCHANGED <<records, lock, hist>>
    /\ response' = Some([op |-> "start_batch", code |-> 200,
                         record_id |-> Len(records) + 1,
                         scanner_used |-> scanner_used,
                         batch_code |-> batch_code])
    /\ UNCHANGED <<record_item, fin, now, detail, norm>>

\* create_record returning cursor.rowcount instead of cursor.lastrowid
start_batch_ReturnsRowcount(scanner_used, batch_code) ==
    /\ Len(records) < MaxBatches
    /\ IF batch_code_unique(batch_code)
       THEN /\ records' = Append(records, NewRecord(batch_code, scanner_used, 0))
            /\ lock' = Append(lock, 0)
            /\ hist' = Append(hist, <<>>)
            /\ response' = Some([op |-> "start_batch", code |-> 200,
                                 record_id |-> 1,
                                 scanner_used |-> scanner_used,
                                 batch_code |-> batch_code])
       ELSE /\ response' = Some([op |-> "start_batch", code |-> 500,
                                 record_id |-> 0,
                                 scanner_used |-> scanner_used,
                                 batch_code |-> batch_code])
            /\ UNCHANGED <<records, lock, hist>>
    /\ UNCHANGED <<record_item, fin, now, detail, norm>>

\* start_time is the datetime.now() of create_record; no handler compares or
\* computes with it, and every batch carries the same instant 0 here
\* create_record is one INSERT and its commit: the uncommitted row is visible
\* to no other call, so the two are one step. A refused INSERT raises Error:
\* rollback, re-raise, and the handler answers 500.
start_batch(scanner_used, batch_code) ==
    /\ Len(records) < MaxBatches
    /\ IF batch_code_unique(batch_code)
       THEN /\ records' = Append(records, NewRecord(batch_code, scanner_used, 0))
            /\ lock' = Append(lock, 0)
            /\ hist' = Append(hist, <<>>)
            /\ response' = Some([op |-> "start_batch", code |-> 200,
                                 record_id |-> Len(records) + 1,
                                 scanner_used |-> scanner_used,
                                 batch_code |-> batch_code])
       ELSE /\ response' = Some([op |-> "start_batch", code |-> 500,
                                 record_id |-> 0,
                                 scanner_used |-> scanner_used,
                                 batch_code |-> batch_code])
            /\ UNCHANGED <<records, lock, hist>>
    /\ UNCHANGED <<record_item, fin, now, detail, norm>>

-----------------------------------------------------------------------------
(* main.finish_batch with models.finish_record                              *)

\* the list comprehension over normalize_item: the normalized items, or the
\* exception of the first item that raises
NormalizeAll(items, record_id, scanner_used) ==
    LET outs == [i \in DOMAIN items |-> normalize_item(items[i], record_id, scanner_used)]
    IN  IF \E i \in DOMAIN outs : outs[i].raised
        THEN [raised |-> TRUE, items |-> <<>>]
        ELSE [raised |-> FALSE, items |-> [i \in DOMAIN outs |-> outs[i].item]]

\* the finish calls of a batch that committed and returned "completed"
Completions(record_id) ==
    IF record_id \in DOMAIN hist
    THEN SelectSeq(hist[record_id], LAMBDA h : h.outcome = "completed")
    ELSE <<>>

Prior(record_id) == Len(Completions(record_id))

\* the status check left out
IsRunning_Unchecked(record) == TRUE

\* line 53 of main.py: the status check
IsRunning(record) == record.status = "Running"

\* the response of finish_batch; prior is history, as in IdleCall
FinishResponse(record_id, empty, prior, code, outcome) ==
    Some([op |-> "finish_batch", record_id |-> record_id, empty |-> empty,
          prior |-> prior, code |-> code, outcome |-> outcome])

\* a request is served by the first free worker
FirstFree(p) == fin[p].pc = "idle" /\ \A q \in Workers : q < p => fin[q].pc # "idle"

\* finish_batch without its "if not items" check
FinishChecks_NoEmptyCheck(p, record_id, items, found) ==
    /\ FirstFree(p)
    /\ LET Fails(code, outcome) ==
               /\ response' = FinishResponse(record_id, items = <<>>, Prior(record_id),
                                             code, outcome)
               /\ UNCHANGED <<fin, now>>
       IN  IF found = None THEN Fails(404, "not_found")
           ELSE IF ~IsRunning(found[1]) THEN Fails(400, "already_finished")
           ELSE LET normalized ==
                        NormalizeAll(items, record_id, json_loads(found[1].scanner_used))
                IN  IF normalized.raised THEN Fails(500, "server_error")
                    ELSE /\ now <= MaxCalls
                         /\ fin' = [fin EXCEPT ![p] =
                                        [pc |-> "update",
                                         record_id |-> record_id,
                                         normalized |-> normalized.items,
                                         end_time |-> now,
                                         total_items |-> Len(normalized.items),
                                         k |-> 0,
                                         n |-> Len(items),
                                         prior |-> Prior(record_id),
                                         item_ids |-> [i \in DOMAIN items |->
                                                          items[i].item_id]]]
                         /\ now' = now + 1
                         /\ response' = None
    /\ UNCHANGED <<records, record_item, lock, hist, detail, norm>>

\* lines 45-63 of main.py and the start of finish_record: the status read,
\* the checks, the normalisation and the sampling of end_time; found is
\* what get_record returned
FinishChecks(p, record_id, items, found) ==
    /\ FirstFree(p)
    /\ LET Fails(code, outcome) ==
               /\ response' = FinishResponse(record_id, items = <<>>, Prior(record_id),
                                             code, outcome)
               /\ UNCHANGED <<fin, now>>
       IN  IF found = None THEN Fails(404, "not_found")
           ELSE IF items = <<>> THEN Fails(400, "empty_input")
           ELSE IF ~IsRunning(found[1]) THEN Fails(400, "already_finished")
           ELSE LET normalized ==
                        NormalizeAll(items, record_id, json_loads(found[1].scanner_used))
                IN  IF normalized.raised THEN Fails(500, "server_error")
                    ELSE /\ now <= MaxCalls
                         /\ fin' = [fin EXCEPT ![p] =
                                        [pc |-> "update",
                                         record_id |-> record_id,
                                         normalized |-> normalized.items,
                                         end_time |-> now,
                                         total_items |-> Len(normalized.items),
                                         k |-> 0,
                                         n |-> Len(items),
                                         prior |-> Prior(record_id),
                                         item_ids |-> [i \in DOMAIN items |->
                                                          items[i].item_id]]]
                         /\ now' = now + 1
                         /\ response' = None
    /\ UNCHANGED <<records, record_item, lock, hist, detail, norm>>

finish_batch(p, record_id, items) ==
    FinishChecks(p, record_id, items, get_record(record_id))

\* the UPDATE of finish_record: takes the row lock, not yet committed
finish_record_update(p) ==
    /\ fin[p].pc = "update"
    /\ lock[fin[p].record_id] = 0
    /\ lock' = [lock EXCEPT ![fin[p].record_id] = p]
    /\ fin' = [fin EXCEPT ![p].pc = "insert"]
    /\ response' = None
    /\ UNCHANGED <<records, record_item, hist, now, detail, norm>>

\* one iteration of the insert loop of finish_record
finish_record_insert(p) ==
    /\ fin[p].pc = "insert"
    /\ fin[p].k < Len(fin[p].normalized)
    /\ fin' = [fin EXCEPT ![p].k = @ + 1]
    /\ response' = None
    /\ UNCHANGED <<records, record_item, lock, hist, now, detail, norm>>

\* the rows a transaction has inserted so far
Inserted(p) ==
    [i \in 1..fin[p].k |-> ItemRow(fin[p].record_id, fin[p].normalized[i])]

\* the UPDATE without end_time in its SET list
Updated_NoEndTime(row, p) ==
    [row EXCEPT !.status = "Completed",
                !.total_items = Some(fin[p].total_items)]

\* the effect of the transaction's UPDATE on the row
Updated(row, p) ==
    [row EXCEPT !.end_time = Some(fin[p].end_time),
                !.status = "Completed",
                !.total_items = Some(fin[p].total_items)]

\* the history entry of a transaction that ends: whether it had executed an
\* INSERT, and what it made durable (nothing when it is rolled back)
Ended(p, outcome) ==
    IF outcome = "completed"
    THEN [outcome |-> outcome, wrote |-> fin[p].k >= 1, end_time |-> fin[p].end_time,
          total_items |-> fin[p].n, rows |-> Inserted(p), item_ids |-> fin[p].item_ids]
    ELSE [outcome |-> outcome, wrote |-> fin[p].k >= 1, end_time |-> 0,
          total_items |-> 0, rows |-> <<>>, item_ids |-> <<>>]

\* finish_record with an UPDATE that has no WHERE clause
finish_record_commit_NoWhere(p) ==
    /\ fin[p].pc = "insert"
    /\ fin[p].k = Len(fin[p].normalized)
    /\ records' = [b \in DOMAIN records |-> Updated(records[b], p)]
    /\ record_item' = record_item \o Inserted(p)
    /\ lock' = [lock EXCEPT ![fin[p].record_id] = 0]
    /\ hist' = [hist EXCEPT ![fin[p].record_id] = Append(@, Ended(p, "completed"))]
    /\ fin' = [fin EXCEPT ![p] = IdleCall]
    /\ response' = FinishResponse(fin[p].record_id, FALSE, fin[p].prior,
                                  200, "completed")
    /\ UNCHANGED <<now, detail, norm>>

\* conn.commit() and the return of finish_batch
finish_record_commit(p) ==
    /\ fin[p].pc = "insert"
    /\ fin[p].k = Len(fin[p].normalized)
    /\ records' = [records EXCEPT ![fin[p].record_id] = Updated(@, p)]
    /\ record_item' = record_item \o Inserted(p)
    /\ lock' = [lock EXCEPT ![fin[p].record_id] = 0]
    /\ hist' = [hist EXCEPT ![fin[p].record_id] = Append(@, Ended(p, "completed"))]
    /\ fin' = [fin EXCEPT ![p] = IdleCall]
    /\ response' = FinishResponse(fin[p].record_id, FALSE, fin[p].prior,
                                  200, "completed")
    /\ UNCHANGED <<now, detail, norm>>

\* get_record caught an Error or had no connection: it returns None
finish_batch_lookup_failed(p, record_id, items) ==
    FinishChecks(p, record_id, items, None)

\* the failure path with conn.commit() in place of conn.rollback()
finish_record_rollback_commits(p) ==
    /\ fin[p].pc \in {"update", "insert"}
    /\ records' = IF fin[p].pc = "insert"
                  THEN [records EXCEPT ![fin[p].record_id] = Updated(@, p)]
                  ELSE records
    /\ record_item' = record_item \o Inserted(p)
    /\ lock' = [b \in DOMAIN lock |-> IF lock[b] = p THEN 0 ELSE lock[b]]
    /\ fin' = [fin EXCEPT ![p] = IdleCall]
    /\ hist' = [hist EXCEPT ![fin[p].record_id] = Append(@, Ended(p, "rolled_back"))]
    /\ response' = FinishResponse(fin[p].record_id, FALSE, fin[p].prior,
                                  500, "storage_error")
    /\ UNCHANGED <<now, detail, norm>>

\* finish_record fails or is abandoned before the commit (no connection, an
\* Error in the UPDATE or in an INSERT, a dropped connection): rollback
finish_record_rollback(p) ==
    /\ fin[p].pc \in {"update", "insert"}
    /\ lock' = [b \in DOMAIN lock |-> IF lock[b] = p THEN 0 ELSE lock[b]]
    /\ fin' = [fin EXCEPT ![p] = IdleCall]
    /\ hist' = [hist EXCEPT ![fin[p].record_id] = Append(@, Ended(p, "rolled_back"))]
    /\ response' = FinishResponse(fin[p].record_id, FALSE, fin[p].prior,
                                  500, "storage_error")
    /\ UNCHANGED <<records, record_item, now, detail, norm>>

-----------------------------------------------------------------------------
(* main.get_batch_detail and main.list_batches                              *)

\* line 94: the first read, of the batch row
get_batch_detail(record_id) ==
    /\ detail.pc = "idle"
    /\ LET record == get_record(record_id)
       IN  IF record = None
           THEN /\ detail' = IdleDetail
                /\ response' = Some([op |-> "get_batch_detail", code |-> 404,
                                     record_id |-> record_id])
           ELSE /\ detail' = [pc |-> "items", record_id |-> record_id,
                              record |-> record]
                /\ response' = None
    /\ UNCHANGED <<records, record_item, lock, fin, hist, now, norm>>

\* lines 99-118: the second read, of the items, and the response
get_batch_detail_items ==
    /\ detail.pc = "items"
    /\ LET items == get_record_items(detail.record_id)
           record == detail.record[1]
           total_items == Len(items)
           pass_count == CountWhere(items, LAMBDA i : i.validation_result = Some("PASS"))
       IN  response' = Some([op |-> "get_batch_detail", code |-> 200,
                             record_id |-> detail.record_id,
                             end_time |-> record.end_time,
                             status |-> record.status,
                             scanner_used |-> json_loads(record.scanner_used),
                             total_items |-> total_items,
                             pass_count |-> pass_count,
                             fail_count |-> total_items - pass_count,
                             items |-> items])
    /\ detail' = IdleDetail
    /\ UNCHANGED <<records, record_item, lock, fin, hist, now, norm>>

list_batches(status) ==
    /\ LET found == get_all_records(status)
       IN  response' = Some([op |-> "list_batches", code |-> 200, status |-> status,
                             total |-> Len(found), records |-> found])
    /\ UNCHANGED <<records, record_item, lock, fin, hist, now, detail, norm>>

-----------------------------------------------------------------------------
(* main.download_record                                                     *)

\* the response of download_record; on 200 items and scanner_used are the
\* arguments export_record_to_excel was called with, status the status read
DownloadResponse(record_id, code, outcome, status, items, scanner_used) ==
    Some([op |-> "download_record", record_id |-> record_id, code |-> code,
          outcome |-> outcome, status |-> status, items |-> items,
          scanner_used |-> scanner_used])

\* download_record without its status check
download_record_NoStatusCheck(record_id) ==
    /\ detail.pc = "idle"
    /\ LET record == get_record(record_id)
       IN  IF record = None
           THEN /\ detail' = IdleDetail
                /\ response' = DownloadResponse(record_id, 404, "not_found",
                                                "", <<>>, <<>>)
           ELSE /\ detail' = [pc |-> "export", record_id |-> record_id,
                              record |-> record]
                /\ response' = None
    /\ UNCHANGED <<records, record_item, lock, fin, hist, now, norm>>

\* lines 137-143: the read of the batch row and the two checks on it
download_record(record_id) ==
    /\ detail.pc = "idle"
    /\ LET record == get_record(record_id)
       IN  IF record = None
           THEN /\ detail' = IdleDetail
                /\ response' = DownloadResponse(record_id, 404, "not_found",
                                                "", <<>>, <<>>)
           ELSE IF record[1].status # "Completed"
           THEN /\ detail' = IdleDetail
                /\ response' = DownloadResponse(record_id, 400, "not_completed",
                                                record[1].status, <<>>, <<>>)
           ELSE /\ detail' = [pc |-> "export", record_id |-> record_id,
                              record |-> record]
                /\ response' = None
    /\ UNCHANGED <<records, record_item, lock, fin, hist, now, norm>>

\* lines 145-161: the read of the items, the check on them, and the call of
\* export_record_to_excel
download_record_items ==
    /\ detail.pc = "export"
    /\ LET items == get_record_items(detail.record_id)
           record == detail.record[1]
       IN  IF items = <<>>
           THEN response' = DownloadResponse(detail.record_id, 404, "no_items",
                                             record.status, <<>>, <<>>)
           ELSE response' = DownloadResponse(detail.record_id, 200, "rendered",
                                             record.status, items,
                                             json_loads(record.scanner_used))
    /\ detail' = IdleDetail
    /\ UNCHANGED <<records, record_item, lock, fin, hist, now, norm>>

-----------------------------------------------------------------------------
(* The reading handlers when a read of the database fails                   *)

\* get_batch_detail when get_record had no connection or caught an Error and
\* returned None
get_batch_detail_lookup_failed(record_id) ==
    /\ detail.pc = "idle"
    /\ detail' = IdleDetail
    /\ response' = Some([op |-> "get_batch_detail", code |-> 404,
                         record_id |-> record_id])
    /\ UNCHANGED <<records, record_item, lock, fin, hist, now, norm>>

\* get_batch_detail when get_record_items had no connection or caught an
\* Error and returned []
get_batch_detail_items_failed ==
    /\ detail.pc = "items"
    /\ LET record == detail.record[1]
       IN  response' = Some([op |-> "get_batch_detail", code |-> 200,
                             record_id |-> detail.record_id,
                             end_time |-> record.end_time,
                             status |-> record.status,
                             scanner_used |-> json_loads(record.scanner_used),
                             total_items |-> 0,
                             pass_count |-> 0,
                             fail_count |-> 0,
                             items |-> <<>>])
    /\ detail' = IdleDetail
    /\ UNCHANGED <<records, record_item, lock, fin, hist, now, norm>>

\* download_record when get_record returned None for a failed read
download_record_lookup_failed(record_id) ==
    /\ detail.pc = "idle"
    /\ detail' = IdleDetail
    /\ response' = DownloadResponse(record_id, 404, "not_found", "", <<>>, <<>>)
    /\ UNCHANGED <<records, record_item, lock, fin, hist, now, norm>>

\* download_record when get_record_items returned [] for a failed read
download_record_items_failed ==
    /\ detail.pc = "export"
    /\ response' = DownloadResponse(detail.record_id, 404, "no_items",
                                    detail.record[1].status, <<>>, <<>>)
    /\ detail' = IdleDetail
    /\ UNCHANGED <<records, record_item, lock, fin, hist, now, norm>>

-----------------------------------------------------------------------------
(* Specifications                                                           *)

RecordIds == 1..MaxBatches

\* the handlers that write: POST /start and POST /finish/{record_id}
NextWrite ==
    \/ \E scanner_used \in ScannerConfigs, batch_code \in BatchCodes :
            start_batch(scanner_used, batch_code)
    \/ \E p \in Workers, record_id \in RecordIds, items \in ItemLists :
            finish_batch(p, record_id, items)
    \/ \E p \in Workers : finish_record_update(p)
    \/ \E p \in Workers : finish_record_insert(p)
    \/ \E p \in Workers : finish_record_commit(p)

\* the handlers that read: GET /batch/{record_id} and GET /batches
NextRead ==
    \/ \E record_id \in RecordIds : get_batch_detail(record_id)
    \/ get_batch_detail_items
    \/ \E status \in StatusFilters : list_batches(status)

Next == NextWrite \/ NextRead

\* the handlers over a database that does not fail
Spec == Init /\ [][Next]_vars

\* the writing handlers alone, over a database that does not fail
SpecWrite == Init /\ [][NextWrite]_vars

StorageFault ==
    \/ \E p \in Workers, record_id \in RecordIds :
            finish_batch_lookup_failed(p, record_id, <<ItemPass>>)
    \/ \E p \in Workers : finish_record_rollback(p)

\* the writing handlers and GET /batches
NextList == NextWrite \/ \E status \in StatusFilters : list_batches(status)

SpecList == Init /\ [][NextList]_vars

\* the writing handlers and GET /download/{record_id}
NextExport ==
    \/ NextWrite
    \/ \E record_id \in RecordIds : download_record(record_id)
    \/ download_record_items

SpecExport == Init /\ [][NextExport]_vars

NextFault == NextWrite \/ StorageFault

\* the writing handlers over a database whose statements and connections may
\* fail
SpecFault == Init /\ [][NextFault]_vars

ReadFault ==
    \/ \E p \in Workers, record_id \in RecordIds :
            finish_batch_lookup_failed(p, record_id, <<ItemPass>>)
    \/ \E record_id \in RecordIds : get_batch_detail_lookup_failed(record_id)
    \/ get_batch_detail_items_failed
    \/ \E record_id \in RecordIds : download_record_lookup_failed(record_id)
    \/ download_record_items_failed

NextReadFault ==
    \/ NextWrite
    \/ \E record_id \in RecordIds : get_batch_detail(record_id)
    \/ get_batch_detail_items
    \/ \E record_id \in RecordIds : download_record(record_id)
    \/ download_record_items
    \/ ReadFault

\* the handlers over a database whose reads may fail
SpecReadFault == Init /\ [][NextReadFault]_vars

-----------------------------------------------------------------------------
(* The writing handlers over well-formed and malformed requests             *)

\* scanner_used of a start request: List[int] is all the request model asks;
\* a proper configuration, an empty one, a scanner that does not exist, and a
\* scanner listed twice
AnyScannerConfigs == {<<1, 2>>, <<>>, <<4>>, <<1, 1>>}

\* batch_code of a start request: Optional[str]
AnyBatchCodes == {None, Some("B1")}

\* the body of a finish request: list[dict] is all the handler asks; no item,
\* one item, an item without item_id after a well-formed item, and the same
\* item twice
AnyItemLists == {<<>>, <<ItemPass>>, <<ItemPass, ItemNoId>>, <<ItemPass, ItemPass>>}

\* start requests at any moment, finish requests one at a time
NextInput ==
    \/ \E scanner_used \in AnyScannerConfigs, batch_code \in AnyBatchCodes :
            start_batch(scanner_used, batch_code)
    \/ \E record_id \in RecordIds, items \in AnyItemLists :
            finish_batch(1, record_id, items)
    \/ finish_record_update(1)
    \/ finish_record_insert(1)
    \/ finish_record_commit(1)

SpecInput == Init /\ [][NextInput]_vars

-----------------------------------------------------------------------------
(* normalize_item on its own, over every raw item and configuration         *)

NormItems ==
    {RawItem(id, r1, r2, r3) :
        id \in {None, Some(1)}, r1 \in Readings, r2 \in Readings, r3 \in Readings}

NormConfigs == SeqsUpTo(1..3, MaxCfgLen)

InitNorm ==
    /\ records = <<>>
    /\ record_item = <<>>
    /\ lock = <<>>
    /\ fin = [p \in Workers |-> IdleCall]
    /\ hist = <<>>
    /\ now = 1
    /\ detail = IdleDetail
    /\ response = None
    /\ norm \in {[item |-> item, scanner_used |-> scanner_used, out |-> None] :
                    item \in NormItems, scanner_used \in NormConfigs}

normalize_call ==
    /\ norm.out = None
    /\ norm' = [norm EXCEPT !.out = Some(normalize_item(norm.item, 1, norm.scanner_used))]
    /\ UNCHANGED <<records, record_item, lock, fin, hist, now, detail, response>>

NextNorm == normalize_call

SpecNorm == InitNorm /\ [][NextNorm]_vars

-----------------------------------------------------------------------------
(* Lifecycle properties (checked under Spec, SpecWrite and SpecFault)       *)

Batches == DOMAIN records

FinishReturned == response # None /\ response[1].op = "finish_batch"

\* C1: of the finish calls on one batch at most one returns "completed", and
\* the batch's total_items, end_time and items are those of that call.
C1_OneFinishWins ==
    \A b \in Batches :
        LET done == Completions(b)
        IN  /\ Len(done) <= 1
            /\ Len(done) = 1 =>
                   /\ records[b].total_items = Some(done[1].total_items)
                   /\ records[b].end_time = Some(done[1].end_time)
                   /\ ItemsOf(b) = done[1].rows

\* a finish call with a non-empty item list whose status read came after a
\* completed finish of the same batch
LaterFinish(r) == r # None /\ r[1].op = "finish_batch" /\ r[1].prior >= 1 /\ ~r[1].empty

\* C2: a finish call (non-empty list) on a batch that a finish call has already
\* completed never enters finish_record, returns "already_finished", and its
\* return leaves the records and record_item tables unchanged.
C2_LaterFinishRejected ==
    /\ [](/\ \A p \in Workers : fin[p].pc # "idle" => fin[p].prior = 0
          /\ LaterFinish(response) => response[1].outcome = "already_finished")
    /\ [][LaterFinish(response') => (records' = records /\ record_item' = record_item)]_vars

C2_Witness ==
    /\ LaterFinish(response)
    /\ response[1].outcome = "already_finished"
    /\ records[response[1].record_id].status = "Completed"
    /\ ItemsOf(response[1].record_id) = Completions(response[1].record_id)[1].rows

\* C3: no reader sees a partial finalize: the committed tables, a
\* list_batches summary and a get_batch_detail response never show a Running
\* batch with items, nor a Completed batch without items.
C3_NoPartialFinalizeVisible ==
    /\ \A b \in Batches :
          (records[b].status = "Running") = (ItemsOf(b) = <<>>)
    /\ (response # None /\ response[1].op = "list_batches") =>
          \A i \in DOMAIN response[1].records :
              (response[1].records[i].status = "Running")
                  = (response[1].records[i].total_items = 0)
    /\ (response # None /\ response[1].op = "get_batch_detail" /\ response[1].code = 200) =>
          (response[1].status = "Running") = (response[1].items = <<>>)

\* C4: a finish_record that fails before its commit changes neither table; a
\* batch no finish call has completed is Running with end_time NULL,
\* total_items 0 and no items, whatever failed on it before; and only a running
\* transaction holds a row lock, so a later finish can go through.
C4_FailedFinalizeRolledBack ==
    /\ [](/\ \A b \in Batches :
                Completions(b) = <<>> =>
                    /\ records[b].status = "Running"
                    /\ records[b].end_time = None
                    /\ records[b].total_items = Some(0)
                    /\ ItemsOf(b) = <<>>
          /\ \A b \in Batches :
                lock[b] # 0 => (fin[lock[b]].pc = "insert" /\ fin[lock[b]].record_id = b))
    /\ [][(FinishReturned' /\ response'[1].outcome = "storage_error")
              => (records' = records /\ record_item' = record_item)]_vars

\* a finish that failed after an INSERT, then a finish of the same batch that
\* completed
C4_Witness ==
    \E b \in Batches :
        /\ Len(hist[b]) = 2
        /\ hist[b][1].outcome = "rolled_back"
        /\ hist[b][1].wrote
        /\ hist[b][2].outcome = "completed"
        /\ records[b].status = "Completed"
        /\ ItemsOf(b) = hist[b][2].rows

\* C5 as claimed: end_time and total_items are both NULL while the batch is
\* not Completed and both non-NULL once it is.
C5_NullUntilCompleted ==
    \A b \in Batches :
        IF records[b].status = "Completed"
        THEN records[b].end_time # None /\ records[b].total_items # None
        ELSE records[b].end_time = None /\ records[b].total_items = None

\* C5 as amended: end_time is non-NULL exactly when the batch is Completed;
\* total_items is never NULL: it is 0 while the batch is Running and at least
\* 1 once it is Completed.
C5_EndTimeIffCompleted ==
    \A b \in Batches :
        /\ (records[b].end_time # None) = (records[b].status = "Completed")
        /\ records[b].total_items # None
        /\ (records[b].total_items = Some(0)) = (records[b].status = "Running")

C5_Witness ==
    \E a, b \in Batches :
        /\ records[a].status = "Running"
        /\ records[a].total_items = Some(0)
        /\ records[b].status = "Completed"
        /\ records[b].end_time # None
        /\ records[b].total_items = Some(2)

\* C6: every batch is created Running, every status is Running or Completed,
\* and no step changes a status except from Running to Completed.
C6_RunningThenCompleted ==
    /\ [](\A b \in Batches : records[b].status \in {"Running", "Completed"})
    /\ [][\A b \in DOMAIN records' :
             IF b \in Batches
             THEN \/ records'[b].status = records[b].status
                  \/ records[b].status = "Running" /\ records'[b].status = "Completed"
             ELSE records'[b].status = "Running"]_vars

\* a batch that was completed and then refused a second finish, beside a batch
\* that is still Running after a failed finish
C6_Witness ==
    /\ Len(records) = 2
    /\ records[1].status = "Completed"
    /\ records[2].status = "Running"
    /\ hist[2] # <<>>
    /\ hist[2][1].outcome = "rolled_back"
    /\ FinishReturned /\ response[1].outcome = "already_finished"

\* C7: for every Completed batch, total_items equals the number of items
\* persisted for it and the length of the list of the call that completed it.
C7_TotalItemsIsItemCount ==
    \A b \in Batches :
        records[b].status = "Completed" =>
            /\ records[b].total_items = Some(Len(ItemsOf(b)))
            /\ \A i \in DOMAIN Completions(b) :
                   records[b].total_items = Some(Completions(b)[i].total_items)

\* C8: once a finish call on a batch has returned "completed", no step changes
\* the items persisted for that batch.
C8_ItemSetWriteOnce ==
    [][\A b \in Batches :
          Completions(b) # <<>> =>
              SelectSeq(record_item', LAMBDA r : r.record_id = b) = ItemsOf(b)]_vars

-----------------------------------------------------------------------------
(* Persisted verdicts and request validation                                *)

Verdicts == {Some("PASS"), Some("FAIL")}

\* the worker whose finish_record commits in this step
Commits(p) ==
    /\ fin[p].pc = "insert"
    /\ fin'[p].pc = "idle"
    /\ FinishReturned'
    /\ response'[1].outcome = "completed"

\* C13: a commit of finish_record appends one row per normalized item, each
\* with the result normalize_item computed as its validation_result; no row
\* of record_item has a NULL validation_result; get_batch_detail returns
\* every item with a PASS or FAIL result and get_all_records counts every
\* item of a batch as passed or failed.
C13_StoredVerdictIsNormalized ==
    /\ [][\A p \in Workers :
             Commits(p) =>
                 /\ Len(record_item') = Len(record_item) + Len(fin[p].normalized)
                 /\ \A i \in DOMAIN fin[p].normalized :
                        record_item'[Len(record_item) + i].validation_result
                            = Some(fin[p].normalized[i].result)]_vars
    /\ [](/\ \A i \in DOMAIN record_item : record_item[i].validation_result \in Verdicts
          /\ (response # None /\ response[1].op = "get_batch_detail"
                  /\ response[1].code = 200) =>
                 \A i \in DOMAIN response[1].items :
                     response[1].items[i].validation_result \in Verdicts
          /\ (response # None /\ response[1].op = "list_batches") =>
                 \A i \in DOMAIN response[1].records :
                     response[1].records[i].pass_count + response[1].records[i].fail_count
                         = Len(ItemsOf(response[1].records[i].id)))

StartReturned == response # None /\ response[1].op = "start_batch"

\* a scanner configuration as the spec requires it: not empty, scanners 1..3,
\* none listed twice
ValidConfig(scanner_used) ==
    /\ scanner_used # <<>>
    /\ \A i \in DOMAIN scanner_used : scanner_used[i] \in 1..3
    /\ \A i, j \in DOMAIN scanner_used : scanner_used[i] = scanner_used[j] => i = j

\* C14: a start request whose configuration is empty, names a scanner outside
\* 1..3 or lists a scanner twice is refused, and every stored batch has a
\* valid configuration.
C14_InvalidConfigurationRejected ==
    /\ \A b \in Batches : ValidConfig(json_loads(records[b].scanner_used))
    /\ (StartReturned /\ ~ValidConfig(response[1].scanner_used)) => response[1].code # 200

C16_FinishRejectedBeforeWrite ==
    /\ [](\A p \in Workers :
             fin[p].pc # "idle" =>
                 (fin[p].record_id \in Batches /\ fin[p].normalized # <<>>))
    /\ [][FinishReturned' =>
             /\ response'[1].record_id \notin Batches
                    => response'[1].outcome = "not_found"
             /\ (response'[1].record_id \in Batches /\ response'[1].empty)
                    => response'[1].outcome = "empty_input"
             /\ response'[1].outcome \in {"not_found", "empty_input", "already_finished"}
                    => (records' = records /\ record_item' = record_item)]_vars

\* an empty list refused on a Running batch while another finish call of the
\* same batch is inside finish_record
C16_Witness ==
    /\ FinishReturned
    /\ response[1].outcome = "empty_input"
    /\ records[response[1].record_id].status = "Running"
    /\ fin[1].pc = "insert"
    /\ fin[1].record_id = response[1].record_id

\* C17: a finish call with an item that has no item_id never enters
\* finish_record (every call inside finish_record carries only items with an
\* item_id), no row without item_id is persisted, and the call's 500 response
\* leaves both tables unchanged.
C17_MissingItemIdRejectsCall ==
    /\ [](/\ \A p \in Workers :
                fin[p].pc # "idle" =>
                    /\ Len(fin[p].normalized) = fin[p].n
                    /\ \A i \in DOMAIN fin[p].normalized :
                           fin[p].normalized[i].item_id # None
          /\ \A i \in DOMAIN record_item : record_item[i].item_id # None)
    /\ [][(FinishReturned' /\ response'[1].outcome = "server_error")
              => (records' = records /\ record_item' = record_item /\ fin' = fin)]_vars

\* the call was refused and the batch is as start_batch left it
C17_Witness ==
    /\ FinishReturned
    /\ response[1].outcome = "server_error"
    /\ records[response[1].record_id]
           = NewRecord(records[response[1].record_id].batch_code,
                       json_loads(records[response[1].record_id].scanner_used), 0)
    /\ ItemsOf(response[1].record_id) = <<>>
    /\ \A p \in Workers : fin[p].pc = "idle"

\* C18: for every batch and every finish call that completed it, the items
\* get_record_items returns have, in order, the item_ids of the raw list of
\* that call.
C18_ItemsInSubmissionOrder ==
    \A b \in Batches :
        \A i \in DOMAIN Completions(b) :
            LET items == get_record_items(b)
            IN  [j \in DOMAIN items |-> items[j].item_id] = Completions(b)[i].item_ids

\* C19: in every summary of a list_batches response
\* pass_count + fail_count <= total_items.
C19_CountsWithinTotal ==
    (response # None /\ response[1].op = "list_batches") =>
        \A i \in DOMAIN response[1].records :
            response[1].records[i].pass_count + response[1].records[i].fail_count
                <= response[1].records[i].total_items

\* the summary of a batch that holds more items than its total_items says
C19_Witness ==
    /\ response # None
    /\ response[1].op = "list_batches"
    /\ \E i \in DOMAIN response[1].records :
          /\ response[1].records[i].status = "Completed"
          /\ response[1].records[i].total_items >= 1
          /\ Len(ItemsOf(response[1].records[i].id)) > response[1].records[i].total_items

DownloadReturned == response # None /\ response[1].op = "download_record"

\* C20: download_record answers "not_found" for an id without a batch and
\* "not_completed" for a batch that is not Completed; for a batch without
\* items it never answers 200 (it fails with "not_completed" or "no_items");
\* and export_record_to_excel is called only with a non-empty item list, for
\* a batch that was read as Completed and is Completed with items.
C20_ExportOnlyCompletedWithItems ==
    /\ [](DownloadReturned /\ response[1].code = 200 =>
             /\ response[1].status = "Completed"
             /\ response[1].items # <<>>
             /\ records[response[1].record_id].status = "Completed"
             /\ response[1].items = get_record_items(response[1].record_id))
    /\ [][DownloadReturned' =>
             /\ response'[1].record_id \notin Batches
                    => response'[1].outcome = "not_found"
             /\ (response'[1].record_id \in Batches
                    /\ records[response'[1].record_id].status # "Completed")
                    => response'[1].outcome = "not_completed"
             /\ (response'[1].record_id \in Batches
                    /\ ItemsOf(response'[1].record_id) = <<>>)
                    => response'[1].outcome \in {"not_completed", "no_items"}]_vars

\* a rendered export of a batch whose finish committed while another finish
\* call of the batch was still inside finish_record
C20_Witness ==
    /\ DownloadReturned
    /\ response[1].code = 200
    /\ response[1].items # <<>>
    /\ \E p \in Workers :
          fin[p].pc = "insert" /\ fin[p].record_id = response[1].record_id

\* C21: a step changes the row or the items of a batch only when it is the
\* commit of a finish call on that batch; a row lock is held only by a call
\* on that batch, so a call waits for no call on another batch; and the
\* outcome of a finish call is decided on its own batch: "already_finished"
\* only for a Completed batch, "empty_input" only for an existing one,
\* "completed" and "storage_error" only at the end of its own transaction.
C21_BatchesIndependent ==
    /\ [](\A b \in Batches : lock[b] # 0 => fin[lock[b]].record_id = b)
    /\ [][\A b \in Batches :
             (\/ records'[b] # records[b]
              \/ SelectSeq(record_item', LAMBDA r : r.record_id = b) # ItemsOf(b))
                 => \E p \in Workers : Commits(p) /\ fin[p].record_id = b]_vars
    /\ [][FinishReturned' =>
             LET a == response'[1].record_id
                 outcome == response'[1].outcome
             IN  /\ outcome = "already_finished"
                        => (a \in Batches /\ records[a].status = "Completed")
                 /\ outcome = "empty_input" => a \in Batches
                 /\ outcome \in {"completed", "storage_error"}
                        => \E p \in Workers :
                               /\ fin[p].pc # "idle"
                               /\ fin[p].record_id = a
                               /\ fin'[p].pc = "idle"]_vars

\* a finish call completed batch 1 while a call on batch 2 held the row lock
\* of batch 2, and batch 2 is as start_batch left it
C21_Witness ==
    /\ FinishReturned
    /\ response[1].outcome = "completed"
    /\ response[1].record_id = 1
    /\ Len(records) = 2
    /\ lock[2] # 0
    /\ fin[lock[2]].k >= 1
    /\ records[2] = NewRecord(records[2].batch_code,
                              json_loads(records[2].scanner_used), 0)
    /\ ItemsOf(2) = <<>>

\* C22: a start that answers 200 appends exactly one row, Running, with no
\* end_time, no items counted, and the scanner configuration and batch code
\* of the request; the id it returns is the id of that row and of no batch
\* created before; every existing row and every item is left as it was.
C22_StartCreatesOneRunningBatch ==
    [][(StartReturned' /\ response'[1].code = 200) =>
          LET id == response'[1].record_id
          IN  /\ Len(records') = Len(records) + 1
              /\ id \notin DOMAIN records
              /\ id \in DOMAIN records'
              /\ \A b \in DOMAIN records : records'[b] = records[b]
              /\ records'[id].status = "Running"
              /\ records'[id].end_time = None
              /\ records'[id].total_items = Some(0)
              /\ json_loads(records'[id].scanner_used) = response'[1].scanner_used
              /\ records'[id].batch_code = response'[1].batch_code
              /\ record_item' = record_item]_vars

\* a second batch was started, with a batch code, after the first was
\* completed with an item
C22_Witness ==
    /\ StartReturned
    /\ response[1].code = 200
    /\ response[1].record_id = 2
    /\ response[1].batch_code = Some("B1")
    /\ records[2].batch_code = Some("B1")
    /\ records[1].status = "Completed"
    /\ record_item # <<>>

DetailReturned == response # None /\ response[1].op = "get_batch_detail"

\* C23: finish, get batch detail and export answer "not found" only for an
\* id no batch has, and export answers "no items" only for a batch without
\* persisted items, also when a read of the database fails.
C23_LookupFailurePropagated ==
    /\ (FinishReturned /\ response[1].outcome = "not_found")
            => response[1].record_id \notin Batches
    /\ (DetailReturned /\ response[1].code = 404)
            => response[1].record_id \notin Batches
    /\ (DownloadReturned /\ response[1].outcome = "not_found")
            => response[1].record_id \notin Batches
    /\ (DownloadReturned /\ response[1].outcome = "no_items")
            => ItemsOf(response[1].record_id) = <<>>

\* C24: no two rows of record_item of the same batch carry the same item_id.
C24_ItemIdsUniquePerBatch ==
    \A i, j \in DOMAIN record_item :
        (i # j /\ record_item[i].record_id = record_item[j].record_id)
            => record_item[i].item_id # record_item[j].item_id

\* the value and the valid flag of a scanner entry of an item read back; an
\* item without the entry has neither
ReadValue(entry) == IF entry = None THEN None ELSE Some(entry[1].value)
ReadValid(entry) == IF entry = None THEN None ELSE Some(entry[1].valid)

\* C26: at the commit of finish_record, the scanner entries get_record_items
\* builds from each row the call inserted carry, for every scanner slot, the
\* value and the valid flag (true, false or unknown) that normalize_item
\* produced.
C26_ReadingsReadBack ==
    [][\A p \in Workers :
          Commits(p) =>
              \A i \in DOMAIN fin[p].normalized :
                  LET n == fin[p].normalized[i]
                      row == record_item'[Len(record_item) + i]
                      scanner_1 == ScannerEntry(row.scanner_1_value, row.scanner_1_valid)
                      scanner_2 == ScannerEntry(row.scanner_2_value, row.scanner_2_valid)
                      scanner_3 == ScannerEntry(row.scanner_3_value, row.scanner_3_valid)
                  IN  /\ ReadValue(scanner_1) = n.scanner_1
                      /\ ReadValid(scanner_1) = n.scanner_1_valid
                      /\ ReadValue(scanner_2) = n.scanner_2
                      /\ ReadValid(scanner_2) = n.scanner_2_valid
                      /\ ReadValue(scanner_3) = n.scanner_3
                      /\ ReadValid(scanner_3) = n.scanner_3_valid]_vars

\* C27: the pass_count and the fail_count get_batch_detail returns for a
\* batch are the pass_count and the fail_count get_all_records reports for
\* that batch over the same rows.
C27_DetailAndListCountsAgree ==
    (DetailReturned /\ response[1].code = 200) =>
        /\ response[1].pass_count = Summary(response[1].record_id).pass_count
        /\ response[1].fail_count = Summary(response[1].record_id).fail_count

-----------------------------------------------------------------------------
(* Verdict properties of normalize_item (checked under SpecNorm)            *)

\* the raw reading of scanner slot s of an item
Slot(item, s) ==
    CASE s = 1 -> item.scanner_1 [] s = 2 -> item.scanner_2 [] s = 3 -> item.scanner_3

Configured(scanner_used) == {scanner_used[i] : i \in DOMAIN scanner_used}

SomeInvalid(item, scanner_used) ==
    \E s \in Configured(scanner_used) : Slot(item, s).valid = Some(FALSE)

SomeMissing(item, scanner_used) ==
    \E s \in Configured(scanner_used) : Slot(item, s).value = None

Normalized == norm.out # None /\ ~norm.out[1].raised

Variants(item, scanner_used) ==
    LET Free(s) == IF s \in Configured(scanner_used) THEN {Slot(item, s)} ELSE Readings
    IN  {RawItem(item.item_id, r1, r2, r3) :
            r1 \in Free(1), r2 \in Free(2), r3 \in Free(3)}

\* C11: when normalize_item returns an item, it returns an item with the same
\* result and the same fallback for every raw item that differs from the
\* input only in slots outside scanner_used.
C11_UnconfiguredSlotsIgnored ==
    Normalized =>
        \A other \in Variants(norm.item, norm.scanner_used) :
            LET out == normalize_item(other, 1, norm.scanner_used)
            IN  /\ ~out.raised
                /\ out.item.result = norm.out[1].item.result
                /\ out.item.fallback = norm.out[1].item.fallback

Examined(item, scanner_used) ==
    {i \in DOMAIN scanner_used :
        \A j \in 1..(i - 1) : Slot(item, scanner_used[j]).valid # Some(FALSE)}

Unbared(item) ==
    LET U(r) == IF r.kind = "bare" THEN Struct(r.value, None) ELSE r
    IN  RawItem(item.item_id, U(item.scanner_1), U(item.scanner_2), U(item.scanner_3))

HasBare(item) == \E s \in 1..3 : Slot(item, s).kind = "bare"

\* C25: normalize_item accepts a raw item, with an item_id, that holds a bare
\* value in a scanner slot: it returns what it returns for the same item with
\* the bare value as the value of a structure whose valid flag is unknown, so
\* the bare value is the slot's value, its valid flag is unknown, and the
\* slot neither sets fallback nor makes the result FAIL.
C25_BareValueAccepted ==
    (norm.out # None /\ norm.item.item_id # None /\ HasBare(norm.item)) =>
        /\ ~norm.out[1].raised
        /\ norm.out[1] = normalize_item(Unbared(norm.item), 1, norm.scanner_used)

====
